---- MODULE Spec2Model ----
(***************************************************************************)
(* Model of the expense tracker of src/index.tsx: the four persisted       *)
(* values (transactions, categories, users, budget), their mirror in       *)
(* localStorage, the three views, and the event handlers that change them. *)
(*                                                                         *)
(* A JavaScript string is modelled as the sequence of its characters.  A   *)
(* run of letters that no operation looks into is kept as one element      *)
(* ("Comida"); every character an operation inspects (comma, double quote, *)
(* blank, sign, digit) is an element of its own.  The empty string is <<>>.*)
(***************************************************************************)
EXTENDS Integers, Sequences, FiniteSets, TLC

\* ------------------------------------------------------------------ bounds

\* addTransaction calls (UUIDs drawn) in one behaviour.
MaxAdds == 3

\* Transactions entered in a behaviour whose subject is the lists, the store
\* or the export rather than the collection's order.
MaxEntered == 2

\* console.error calls in one behaviour (storage writes that throw).
MaxErrors == 1

\* ------------------------------------------------------------- JS values

\* `undefined` / `null` against a present value v.
None == <<>>

Some(v) == <<v>>

\* x ?? d
Coalesce(x, d) == IF x = None THEN d ELSE x[1]

Digits == <<"0", "1", "2", "3", "4", "5", "6", "7", "8", "9">>

IsDigit(c) == \E i \in 1..10 : Digits[i] = c

DigitVal(c) == (CHOOSE i \in 1..10 : Digits[i] = c) - 1

RECURSIVE NatToStr(_)
NatToStr(n) ==
    IF n < 10 THEN <<Digits[n + 1]>>
    ELSE NatToStr(n \div 10) \o <<Digits[(n % 10) + 1]>>

\* String(n) of an integer-valued number, as Array.join and JSON.stringify
\* render it.
NumToStr(n) == IF n < 0 THEN <<"-">> \o NatToStr(-n) ELSE NatToStr(n)

RECURSIVE DigitsValue(_, _)
DigitsValue(s, acc) ==
    IF s = <<>> THEN acc ELSE DigitsValue(Tail(s), 10 * acc + DigitVal(Head(s)))

\* The longest prefix of s made of digits.
RECURSIVE DigitPrefix(_)
DigitPrefix(s) ==
    IF s = <<>> \/ ~IsDigit(Head(s)) THEN <<>>
    ELSE <<Head(s)>> \o DigitPrefix(Tail(s))

\* parseFloat(s) on the integer numerals: an optional sign, then the longest
\* run of digits; NaN when there is no digit.  (Fractions and exponents are
\* outside the texts the model types.)
parseFloat(s) ==
    LET neg  == s # <<>> /\ Head(s) = "-"
        pos  == s # <<>> /\ Head(s) = "+"
        body == IF neg \/ pos THEN Tail(s) ELSE s
        ds   == DigitPrefix(body)
    IN  IF ds = <<>> THEN [isNaN |-> TRUE, value |-> 0]
        ELSE [isNaN |-> FALSE,
              value |-> IF neg THEN 0 - DigitsValue(ds, 0) ELSE DigitsValue(ds, 0)]

\* HTML "valid floating-point number" on the same numerals: an optional "-"
\* (never "+"), then digits only.
ValidFloat(s) ==
    LET body == IF s # <<>> /\ Head(s) = "-" THEN Tail(s) ELSE s
    IN  body # <<>> /\ \A i \in 1..Len(body) : IsDigit(body[i])

\* The value an <input type="number"> reports for the typed text: the text
\* when it is a valid number, the empty string otherwise.
NumberInputValue(typed) == IF ValidFloat(typed) THEN typed ELSE <<>>

\* String.prototype.trim
RECURSIVE TrimStart(_)
TrimStart(s) == IF s # <<>> /\ Head(s) = " " THEN TrimStart(Tail(s)) ELSE s

RECURSIVE TrimEnd(_)
TrimEnd(s) ==
    IF s # <<>> /\ s[Len(s)] = " " THEN TrimEnd(SubSeq(s, 1, Len(s) - 1)) ELSE s

Trim(s) == TrimEnd(TrimStart(s))

\* Array.prototype.join
RECURSIVE Join(_, _)
Join(cells, sep) ==
    IF cells = <<>> THEN <<>>
    ELSE IF Len(cells) = 1 THEN cells[1]
    ELSE cells[1] \o sep \o Join(Tail(cells), sep)

\* Array.prototype.includes
Includes(list, v) == \E i \in 1..Len(list) : list[i] = v

\* ------------------------------------------------------------------ dates

Pad(n, w) ==
    LET s == NatToStr(n)
    IN  [i \in 1..(w - Len(s)) |-> "0"] \o s

\* The value an <input type="date"> reports for a picked day: YYYY-MM-DD.
DateInputValue(y, m, d) == Pad(y, 4) \o <<"-">> \o Pad(m, 2) \o <<"-">> \o Pad(d, 2)

\* Days from 1970-01-01 to the civil day y-m-d.
DaysFromCivil(y, m, d) ==
    LET yy  == IF m <= 2 THEN y - 1 ELSE y
        era == yy \div 400
        yoe == yy - era * 400
        mp  == IF m > 2 THEN m - 3 ELSE m + 9
        doy == (153 * mp + 2) \div 5 + d - 1
        doe == yoe * 365 + yoe \div 4 - yoe \div 100 + doy
    IN  era * 146097 + doe - 719468

\* new Date(s).getTime() of a date-only ISO string (UTC midnight), counted
\* in days (the milliseconds divided by 86400000, which exceed TLC's integers).
DateGetTime(s) ==
    DaysFromCivil(DigitsValue(SubSeq(s, 1, 4), 0),
                  DigitsValue(SubSeq(s, 6, 7), 0),
                  DigitsValue(SubSeq(s, 9, 10), 0))

\* ------------------------------------------------------------------- JSON

\* The text localStorage holds is modelled by its sequence of JSON tokens:
\* brackets, braces, member names, string literals and numbers.
Tok(k, s, n) == [k |-> k, s |-> s, n |-> n]

JSONString(s) == <<Tok("str", s, 0)>>

JSONNumber(n) == <<Tok("num", <<>>, n)>>

JSONMember(name, valueToks) == <<Tok("key", <<name>>, 0)>> \o valueToks

\* JSON.stringify of a Transaction: the members in the order the object was
\* built ({...transaction, id}); a member whose value is undefined is left out.
JSONTransaction(t) ==
    <<Tok("{", <<>>, 0)>>
    \o JSONMember("description", JSONString(t.description))
    \o JSONMember("amount", JSONNumber(t.amount))
    \o JSONMember("type", JSONString(t.type))
    \o (IF t.category = None THEN <<>>
        ELSE JSONMember("category", JSONString(t.category[1])))
    \o JSONMember("date", JSONString(t.date))
    \o JSONMember("user", JSONString(t.user))
    \o JSONMember("id", JSONString(t.id))
    \o <<Tok("}", <<>>, 0)>>

RECURSIVE JSONItems(_, _)
JSONItems(list, kind) ==
    IF list = <<>> THEN <<>>
    ELSE (IF kind = "tx" THEN JSONTransaction(Head(list)) ELSE JSONString(Head(list)))
         \o JSONItems(Tail(list), kind)

JSONArray(list, kind) ==
    <<Tok("[", <<>>, 0)>> \o JSONItems(list, kind) \o <<Tok("]", <<>>, 0)>>

\* JSON.stringify(valueToStore) for the value kept under `key`.
JSONStringify(key, value) ==
    CASE key = "transactions" -> JSONArray(value, "tx")
      [] key = "budget"       -> JSONNumber(value)
      [] OTHER                -> JSONArray(value, "str")

ParseFail == [ok |-> FALSE, value |-> <<>>, next |-> 0]

TxKeys == {"id", "description", "amount", "type", "category", "date", "user"}

\* The members of one object, from token i up to its closing brace; obj is
\* the function from the names read so far to their values.
RECURSIVE ParseMembers(_, _, _)
ParseMembers(toks, i, obj) ==
    IF i > Len(toks) THEN ParseFail
    ELSE IF toks[i].k = "}" THEN [ok |-> TRUE, value |-> obj, next |-> i + 1]
    ELSE IF toks[i].k = "key" /\ i < Len(toks) /\ toks[i + 1].k \in {"str", "num"}
    THEN LET name == toks[i].s[1]
             v    == IF toks[i + 1].k = "num" THEN toks[i + 1].n ELSE toks[i + 1].s
         IN  ParseMembers(toks, i + 2,
                 [x \in (DOMAIN obj) \cup {name} |-> IF x = name THEN v ELSE obj[x]])
    ELSE ParseFail

\* The parsed object read as a Transaction: a member that is missing reads
\* as undefined (only category ever is).
AsTransaction(obj) ==
    [x \in TxKeys |->
        IF x = "category"
        THEN (IF x \in DOMAIN obj THEN Some(obj[x]) ELSE None)
        ELSE obj[x]]

RECURSIVE ParseItems(_, _, _, _)
ParseItems(toks, i, kind, acc) ==
    IF i > Len(toks) THEN ParseFail
    ELSE IF toks[i].k = "]"
    THEN (IF i = Len(toks) THEN [ok |-> TRUE, value |-> acc, next |-> i + 1]
          ELSE ParseFail)
    ELSE IF kind = "str" /\ toks[i].k = "str"
    THEN ParseItems(toks, i + 1, kind, Append(acc, toks[i].s))
    ELSE IF kind = "tx" /\ toks[i].k = "{"
    THEN LET m == ParseMembers(toks, i + 1, <<>>)
         IN  IF m.ok /\ (TxKeys \ {"category"}) \subseteq DOMAIN m.value
             THEN ParseItems(toks, m.next, kind, Append(acc, AsTransaction(m.value)))
             ELSE ParseFail
    ELSE ParseFail

\* JSON.parse(item), read at the type the binding of `key` declares.
JSONParse(key, toks) ==
    IF key = "budget"
    THEN (IF Len(toks) = 1 /\ toks[1].k = "num"
          THEN [ok |-> TRUE, value |-> toks[1].n, next |-> 2]
          ELSE ParseFail)
    ELSE IF toks # <<>> /\ toks[1].k = "["
    THEN ParseItems(toks, 2, IF key = "transactions" THEN "tx" ELSE "str", <<>>)
    ELSE ParseFail

\* ---------------------------------------------------------------- storage

Keys == {"transactions", "categories", "users", "budget"}

DEFAULT_CATEGORIES ==
    <<(<<"Comida">>), (<<"Transporte">>), (<<"Ocio">>), (<<"Hogar">>), (<<"Salud">>),
      (<<"Educación">>)>>

DEFAULT_USERS == <<(<<"Usuario", " ", "1">>), (<<"Usuario", " ", "2">>)>>

DEFAULT_BUDGET == 2000

\* The initialValue each binding passes to useLocalStorage.
InitialValue(key) ==
    CASE key = "transactions" -> <<>>
      [] key = "categories"   -> DEFAULT_CATEGORIES
      [] key = "users"        -> DEFAULT_USERS
      [] OTHER                -> DEFAULT_BUDGET

\* Faulty variant: the parsed value is tested instead of the item
\* (JSON.parse(item) || initialValue), so a stored 0 reads as absent.
LoadValueOrDefault(key, item) ==
    IF item = None \/ item[1] = <<>> THEN InitialValue(key)
    ELSE LET r == JSONParse(key, item[1])
         IN  IF r.ok /\ ~(key = "budget" /\ r.value = 0) THEN r.value
             ELSE InitialValue(key)

\* The useState initializer of useLocalStorage: item is getItem(key), None
\* for null; a null or empty item, or one that does not parse, gives
\* initialValue.
LoadValue(key, item) ==
    IF item = None \/ item[1] = <<>> THEN InitialValue(key)
    ELSE LET r == JSONParse(key, item[1])
         IN  IF r.ok THEN r.value ELSE InitialValue(key)

\* Faulty variant: setStoredValue is called after setItem, so a throw skips it.
StoredValueAfterWrite(old, valueToStore, throws) ==
    IF throws THEN old ELSE valueToStore

\* setValue: the state after setStoredValue(valueToStore), which runs before
\* setItem and so whether or not setItem throws.
StoredValueAfter(old, valueToStore, throws) == valueToStore

\* setValue: the item under the key after setItem(key, text), unless it throws.
ItemAfter(oldItem, text, throws) == IF throws THEN oldItem ELSE Some(text)

\* ------------------------------------------------------------------ state

VARIABLES
    transactions,           \* App: useLocalStorage('transactions', [])
    categories,             \* App: useLocalStorage('categories', DEFAULT_CATEGORIES)
    users,                  \* App: useLocalStorage('users', DEFAULT_USERS)
    budget,                 \* App: useLocalStorage('budget', DEFAULT_BUDGET)
    storage,                \* window.localStorage: key -> None | Some(JSON tokens)
    isManagingCategories,   \* App: useState(false)
    isManagingUsers,        \* App: useState(false)
    nextId,                 \* how many UUIDs crypto.randomUUID() has handed out
    consoleErrors,          \* console.error calls so far
    event,                  \* the event handled last, and what its setValue did
    output,                 \* what the last event showed: alert, download
    deleted                 \* deleteTransaction calls that removed a transaction

vars ==
    <<transactions, categories, users, budget, storage, isManagingCategories,
      isManagingUsers, nextId, consoleErrors, event, output, deleted>>

\* crypto.randomUUID(): the n-th identifier drawn; no two draws are equal.
UUID(n) == <<"uuid">> \o NatToStr(n)

NoOutput == [alert |-> FALSE, download |-> None]

\* An event record: the handler, its argument, the key its setValue wrote
\* ("" when it called no setter) and whether setItem threw.
Event(op, arg, key, throws) == [op |-> op, arg |-> arg, key |-> key, throws |-> throws]

Dashboard == ~isManagingCategories /\ ~isManagingUsers

\* ------------------------------------------------------------ aggregation

\* Faulty variant: a fixed expense is added to the variable total.
TotalsStepFixedAsVariable(acc, t) ==
    LET a1 == IF t.type = <<"income">>
              THEN [acc EXCEPT !.totalIncome = @ + t.amount] ELSE acc
        a2 == IF t.type = <<"fixed-expense">>
              THEN [a1 EXCEPT !.totalVariableExpenses = @ + t.amount] ELSE a1
        a3 == IF t.type = <<"variable-expense">>
              THEN [a2 EXCEPT !.totalVariableExpenses = @ + t.amount] ELSE a2
    IN  a3

\* The reduce callback of the totals memo.
TotalsStep(acc, t) ==
    LET a1 == IF t.type = <<"income">>
              THEN [acc EXCEPT !.totalIncome = @ + t.amount] ELSE acc
        a2 == IF t.type = <<"fixed-expense">>
              THEN [a1 EXCEPT !.totalFixedExpenses = @ + t.amount] ELSE a1
        a3 == IF t.type = <<"variable-expense">>
              THEN [a2 EXCEPT !.totalVariableExpenses = @ + t.amount] ELSE a2
    IN  a3

RECURSIVE Reduce(_, _)
Reduce(list, acc) ==
    IF list = <<>> THEN acc ELSE Reduce(Tail(list), TotalsStep(acc, Head(list)))

Totals(list) ==
    Reduce(list, [totalIncome |-> 0, totalFixedExpenses |-> 0,
                  totalVariableExpenses |-> 0])

totalIncome == Totals(transactions).totalIncome

totalFixedExpenses == Totals(transactions).totalFixedExpenses

totalVariableExpenses == Totals(transactions).totalVariableExpenses

totalExpenses == totalFixedExpenses + totalVariableExpenses

remainingBudget == budget + totalIncome - totalExpenses

\* ------------------------------------------------------------ persistence

\* setValue of the binding of `key`, given valueToStore: the part common to
\* the four bindings (the item written, the error logged).
SetItem(key, valueToStore, throws) ==
    /\ throws => consoleErrors < MaxErrors
    /\ storage' = [storage EXCEPT
                     ![key] = ItemAfter(@, JSONStringify(key, valueToStore), throws)]
    /\ consoleErrors' = IF throws THEN consoleErrors + 1 ELSE consoleErrors

setTransactions(valueToStore, throws) ==
    /\ transactions' = StoredValueAfter(transactions, valueToStore, throws)
    /\ SetItem("transactions", valueToStore, throws)
    /\ UNCHANGED <<categories, users, budget>>

setCategories(valueToStore, throws) ==
    /\ categories' = StoredValueAfter(categories, valueToStore, throws)
    /\ SetItem("categories", valueToStore, throws)
    /\ UNCHANGED <<transactions, users, budget>>

setUsers(valueToStore, throws) ==
    /\ users' = StoredValueAfter(users, valueToStore, throws)
    /\ SetItem("users", valueToStore, throws)
    /\ UNCHANGED <<transactions, categories, budget>>

setBudget(valueToStore, throws) ==
    /\ budget' = StoredValueAfter(budget, valueToStore, throws)
    /\ SetItem("budget", valueToStore, throws)
    /\ UNCHANGED <<transactions, categories, users>>

NoWrite == UNCHANGED <<transactions, categories, users, budget, storage, consoleErrors>>

\* ----------------------------------------------------------- transactions

\* The sort comparator of addTransaction.
CompareDates(a, b) == DateGetTime(b.date) - DateGetTime(a.date)

\* Array.prototype.sort is stable: x goes behind every element that does not
\* compare after it.
RECURSIVE InsertSorted(_, _)
InsertSorted(sorted, x) ==
    IF sorted = <<>> THEN <<x>>
    ELSE IF CompareDates(Head(sorted), x) <= 0
    THEN <<Head(sorted)>> \o InsertSorted(Tail(sorted), x)
    ELSE <<x>> \o sorted

RECURSIVE SortFrom(_, _)
SortFrom(list, sorted) ==
    IF list = <<>> THEN sorted
    ELSE SortFrom(Tail(list), InsertSorted(sorted, Head(list)))

SortByDateDesc(list) == SortFrom(list, <<>>)

\* Faulty variant: the new transaction is put in front and the list is not sorted.
AddedTransactionsUnsorted(prev, newTransaction) == <<newTransaction>> \o prev

\* prev => [newTransaction, ...prev].sort(...)
AddedTransactions(prev, newTransaction) == SortByDateDesc(<<newTransaction>> \o prev)

\* prev => prev.filter(t => t.id !== id)
WithoutTransaction(prev, id) == SelectSeq(prev, LAMBDA t : t.id # id)

\* addTransaction(transaction)
addTransaction(transaction, throws) ==
    LET newTransaction ==
            [id          |-> UUID(nextId),
             description |-> transaction.description,
             amount      |-> transaction.amount,
             type        |-> transaction.type,
             category    |-> transaction.category,
             date        |-> transaction.date,
             user        |-> transaction.user]
    IN  /\ nextId < MaxAdds
        /\ nextId' = nextId + 1
        /\ setTransactions(AddedTransactions(transactions, newTransaction), throws)

\* TransactionForm.handleSubmit with the fields as the user left them:
\* description typed, amount typed into the number input, type, category and
\* user selected, date picked (<<>> when cleared).
HandleSubmit(description, amountTyped, type, category, date, user, throws) ==
    LET amount == NumberInputValue(amountTyped)
    IN  /\ Dashboard
        /\ IF description = <<>> \/ amount = <<>> \/ date = <<>> \/ user = <<>>
           THEN /\ ~throws
                /\ NoWrite
                /\ UNCHANGED nextId
                /\ event' = Event("submit", amountTyped, "", FALSE)
           ELSE /\ addTransaction(
                       [description |-> description,
                        amount      |-> parseFloat(amount).value,
                        type        |-> type,
                        category    |-> IF type # <<"income">> THEN Some(category)
                                        ELSE None,
                        date        |-> date,
                        user        |-> user], throws)
                /\ event' = Event("submit", amountTyped, "transactions", throws)
        /\ output' = NoOutput
        /\ UNCHANGED <<isManagingCategories, isManagingUsers, deleted>>

\* deleteTransaction(id)
DeleteTransaction(id, throws) ==
    /\ Dashboard
    /\ setTransactions(WithoutTransaction(transactions, id), throws)
    /\ deleted' = IF \E i \in 1..Len(transactions) : transactions[i].id = id
                  THEN deleted + 1 ELSE deleted
    /\ event' = Event("deleteTransaction", id, "transactions", throws)
    /\ output' = NoOutput
    /\ UNCHANGED <<isManagingCategories, isManagingUsers, nextId>>

\* BudgetManager.handleUpdate with newBudget as typed into the number input.
HandleUpdate(typed, throws) ==
    LET newBudget == NumberInputValue(typed)
        value     == parseFloat(newBudget)
    IN  /\ Dashboard
        /\ IF ~value.isNaN /\ value.value >= 0
           THEN /\ setBudget(value.value, throws)
                /\ event' = Event("updateBudget", typed, "budget", throws)
           ELSE /\ ~throws
                /\ NoWrite
                /\ event' = Event("updateBudget", typed, "", FALSE)
        /\ output' = NoOutput
        /\ UNCHANGED <<isManagingCategories, isManagingUsers, nextId, deleted>>

\* ------------------------------------------------------- list maintainers

\* prev => [...prev, value]
WithAppended(prev, value) == Append(prev, value)

\* prev => prev.filter(c => c !== value)
WithoutValue(prev, value) == SelectSeq(prev, LAMBDA c : c # value)

\* Faulty variant: the list is not searched for the value.
IsNewValueUnsearched(list, value) == value # <<>>

\* The condition of addCategory and addUser: value && !list.includes(value)
IsNewValue(list, value) == value # <<>> /\ ~Includes(list, value)

\* addCategory(category)
addCategory(category, throws) ==
    IF IsNewValue(categories, category)
    THEN /\ setCategories(WithAppended(categories, category), throws)
         /\ event' = Event("addCategory", category, "categories", throws)
    ELSE /\ ~throws
         /\ NoWrite
         /\ event' = Event("addCategory", category, "", FALSE)

\* CategoryManager.handleAdd with newCategory as typed.
HandleAddCategory(typed, throws) ==
    /\ isManagingCategories
    /\ addCategory(Trim(typed), throws)
    /\ output' = NoOutput
    /\ UNCHANGED <<isManagingCategories, isManagingUsers, nextId, deleted>>

\* Faulty variant: the delete cascades to the transactions of the category.
DeleteCategoryCascading(categoryToDelete, throws) ==
    /\ isManagingCategories
    /\ ~throws
    /\ categories' = WithoutValue(categories, categoryToDelete)
    /\ transactions' =
          SelectSeq(transactions, LAMBDA t : t.category # Some(categoryToDelete))
    /\ storage' = [storage EXCEPT
                     !["categories"] = Some(JSONStringify("categories", categories')),
                     !["transactions"] = Some(JSONStringify("transactions", transactions'))]
    /\ event' = Event("deleteCategory", categoryToDelete, "categories", throws)
    /\ output' = NoOutput
    /\ UNCHANGED <<users, budget, consoleErrors, isManagingCategories, isManagingUsers,
                   nextId, deleted>>

\* deleteCategory(categoryToDelete)
DeleteCategory(categoryToDelete, throws) ==
    /\ isManagingCategories
    /\ setCategories(WithoutValue(categories, categoryToDelete), throws)
    /\ event' = Event("deleteCategory", categoryToDelete, "categories", throws)
    /\ output' = NoOutput
    /\ UNCHANGED <<isManagingCategories, isManagingUsers, nextId, deleted>>

\* addUser(user)
addUser(user, throws) ==
    IF IsNewValue(users, user)
    THEN /\ setUsers(WithAppended(users, user), throws)
         /\ event' = Event("addUser", user, "users", throws)
    ELSE /\ ~throws
         /\ NoWrite
         /\ event' = Event("addUser", user, "", FALSE)

\* UserManager.handleAdd with newUser as typed.
HandleAddUser(typed, throws) ==
    /\ ~isManagingCategories
    /\ isManagingUsers
    /\ addUser(Trim(typed), throws)
    /\ output' = NoOutput
    /\ UNCHANGED <<isManagingCategories, isManagingUsers, nextId, deleted>>

\* deleteUser(userToDelete)
DeleteUser(userToDelete, throws) ==
    /\ ~isManagingCategories
    /\ isManagingUsers
    /\ setUsers(WithoutValue(users, userToDelete), throws)
    /\ event' = Event("deleteUser", userToDelete, "users", throws)
    /\ output' = NoOutput
    /\ UNCHANGED <<isManagingCategories, isManagingUsers, nextId, deleted>>

\* ----------------------------------------------------------------- export

headers ==
    <<(<<"ID">>), (<<"Descripción">>), (<<"Monto">>), (<<"Tipo">>), (<<"Categoría">>),
      (<<"Fecha">>), (<<"Usuario">>)>>

\* cell.replace(/"/g, '""')
RECURSIVE DoubleQuotes(_)
DoubleQuotes(cell) ==
    IF cell = <<>> THEN <<>>
    ELSE (IF Head(cell) = "\"" THEN <<"\"", "\"">> ELSE <<Head(cell)>>)
         \o DoubleQuotes(Tail(cell))

\* Faulty variant: the quotes inside a quoted cell are not doubled.
formatCsvCellUndoubled(cellData) ==
    LET cell == Coalesce(cellData, <<>>)
    IN  IF Includes(cell, ",") THEN <<"\"">> \o cell \o <<"\"">> ELSE cell

\* formatCsvCell(cellData), cellData being None for undefined
formatCsvCell(cellData) ==
    LET cell == Coalesce(cellData, <<>>)
    IN  IF Includes(cell, ",")
        THEN <<"\"">> \o DoubleQuotes(cell) \o <<"\"">>
        ELSE cell

\* The array of one transaction's cells, before join(',').
CsvCells(t) ==
    <<t.id,
      formatCsvCell(Some(t.description)),
      NumToStr(t.amount),
      t.type,
      formatCsvCell(t.category),
      t.date,
      formatCsvCell(Some(t.user))>>

csvRows(list) ==
    <<Join(headers, <<",">>)>> \o [i \in 1..Len(list) |-> Join(CsvCells(list[i]), <<",">>)]

csvContent(list) == Join(csvRows(list), <<"\n">>)

\* Faulty variant: the collection is exported without the check for emptiness.
ExportToCsvUnchecked ==
    /\ Dashboard
    /\ output' = [alert |-> FALSE, download |-> Some(csvContent(transactions))]
    /\ event' = Event("export", <<>>, "", FALSE)
    /\ NoWrite
    /\ UNCHANGED <<isManagingCategories, isManagingUsers, nextId, deleted>>

\* exportToCsv
ExportToCsv ==
    /\ Dashboard
    /\ output' = IF Len(transactions) = 0
                 THEN [alert |-> TRUE, download |-> None]
                 ELSE [alert |-> FALSE, download |-> Some(csvContent(transactions))]
    /\ event' = Event("export", <<>>, "", FALSE)
    /\ NoWrite
    /\ UNCHANGED <<isManagingCategories, isManagingUsers, nextId, deleted>>

\* ------------------------------------------------------------- navigation

\* onClick of "Gestionar Categorías" (the Dashboard renders it)
OpenCategories ==
    /\ Dashboard
    /\ isManagingCategories' = TRUE
    /\ event' = Event("openCategories", <<>>, "", FALSE)
    /\ output' = NoOutput
    /\ NoWrite
    /\ UNCHANGED <<isManagingUsers, nextId, deleted>>

\* Faulty variant: the button is rendered in every view.
OpenUsersFromAnyView ==
    /\ ~isManagingUsers
    /\ isManagingUsers' = TRUE
    /\ event' = Event("openUsers", <<>>, "", FALSE)
    /\ output' = NoOutput
    /\ NoWrite
    /\ UNCHANGED <<isManagingCategories, nextId, deleted>>

\* onClick of "Gestionar Usuarios" (the Dashboard renders it)
OpenUsers ==
    /\ Dashboard
    /\ isManagingUsers' = TRUE
    /\ event' = Event("openUsers", <<>>, "", FALSE)
    /\ output' = NoOutput
    /\ NoWrite
    /\ UNCHANGED <<isManagingCategories, nextId, deleted>>

\* CategoryManager onClose
CloseCategories ==
    /\ isManagingCategories
    /\ isManagingCategories' = FALSE
    /\ event' = Event("closeCategories", <<>>, "", FALSE)
    /\ output' = NoOutput
    /\ NoWrite
    /\ UNCHANGED <<isManagingUsers, nextId, deleted>>

\* UserManager onClose (rendered only when isManagingCategories is false)
CloseUsers ==
    /\ ~isManagingCategories
    /\ isManagingUsers
    /\ isManagingUsers' = FALSE
    /\ event' = Event("closeUsers", <<>>, "", FALSE)
    /\ output' = NoOutput
    /\ NoWrite
    /\ UNCHANGED <<isManagingCategories, nextId, deleted>>

\* ---------------------------------------------------------------- session

\* A new session (the page is loaded again): every binding runs its useState
\* initializer against localStorage, the view flags start false.
Reload ==
    /\ transactions' = LoadValue("transactions", storage["transactions"])
    /\ categories' = LoadValue("categories", storage["categories"])
    /\ users' = LoadValue("users", storage["users"])
    /\ budget' = LoadValue("budget", storage["budget"])
    /\ isManagingCategories' = FALSE
    /\ isManagingUsers' = FALSE
    /\ event' = Event("load", <<>>, "", FALSE)
    /\ output' = NoOutput
    /\ UNCHANGED <<storage, nextId, consoleErrors, deleted>>

Init ==
    /\ storage = [k \in Keys |-> None]
    /\ transactions = LoadValue("transactions", None)
    /\ categories = LoadValue("categories", None)
    /\ users = LoadValue("users", None)
    /\ budget = LoadValue("budget", None)
    /\ isManagingCategories = FALSE
    /\ isManagingUsers = FALSE
    /\ nextId = 0
    /\ consoleErrors = 0
    /\ event = Event("load", <<>>, "", FALSE)
    /\ output = NoOutput
    /\ deleted = 0

\* ----------------------------------------------------------------- inputs

\* A <select> over `list`: its state starts at list[0] || '' (FirstOption) and
\* the user may pick any option; the model picks the first or the last.
FirstOption(list) == IF list = <<>> THEN <<>> ELSE list[1]

SelectOptions(list) == IF list = <<>> THEN {<<>>} ELSE {list[1], list[Len(list)]}

Types == {<<"income">>, <<"fixed-expense">>, <<"variable-expense">>}

PlainDescription == <<"cafe">>

\* pan, "bio"
QuotedDescription == <<"pan", ",", " ", "\"", "bio", "\"">>

\* "bio"
QuotesOnlyDescription == <<"\"", "bio", "\"">>

\* Texts typed into a number input: 5, -2, x (not a number), nothing.
TypedNumbers == {<<"5">>, <<"-", "2">>, <<"x">>, <<>>}

\* Days picked in the date input, and the cleared input.
PickedDates ==
    {DateInputValue(2024, 1, 5), DateInputValue(2024, 1, 3), DateInputValue(2023, 12, 31)}

\* Identifiers deleteTransaction may be called with: drawn or not.
SomeIds == {UUID(n) : n \in 0..MaxAdds}

\* Names typed in the managers: a new name with a comma and blanks around it,
\* a default name, blanks only.
TypedCategories == {<<" ", "Ropa", ",", "bebe", " ">>, <<"Comida">>, <<" ">>}

TypedUsers == {<<"Ana", " ">>, <<"Usuario", " ", "1">>, <<>>}

DeletableCategories == {<<"Comida">>, <<"Ropa", ",", "bebe">>, <<"Viajes">>}

DeletableUsers == {<<"Usuario", " ", "1">>, <<"Ana">>}

\* --------------------------------------------------------- specifications

\* One session on the Dashboard: transactions are entered on several days,
\* in any order, and deleted by identifier; a storage write may throw.
NextSort ==
    \/ \E date \in PickedDates \cup {<<>>}, throws \in BOOLEAN :
          HandleSubmit(PlainDescription, <<"5">>, <<"income">>, FirstOption(categories), date,
                       FirstOption(users), throws)
    \/ \E id \in SomeIds, throws \in BOOLEAN : DeleteTransaction(id, throws)

SpecSort == Init /\ [][NextSort]_vars

\* One session on the Dashboard: transactions of every kind are entered with
\* the amount typed into the number input, and deleted.
NextTotals ==
    \/ \E a \in TypedNumbers, ty \in Types :
          HandleSubmit(PlainDescription, a, ty, FirstOption(categories),
                       DateInputValue(2024, 1, 5), FirstOption(users), FALSE)
    \/ \E id \in SomeIds : DeleteTransaction(id, FALSE)

SpecTotals == Init /\ [][NextTotals]_vars

\* One session over the three views: the lists are edited in their managers,
\* transactions that refer to their entries are entered on the Dashboard.
NextLists ==
    \/ \E c \in SelectOptions(categories) :
          /\ nextId < MaxEntered
          /\ HandleSubmit(PlainDescription, <<"5">>, <<"variable-expense">>, c,
                          DateInputValue(2024, 1, 5), FirstOption(users), FALSE)
    \/ OpenCategories
    \/ OpenUsers
    \/ CloseCategories
    \/ CloseUsers
    \/ \E typed \in TypedCategories : HandleAddCategory(typed, FALSE)
    \/ \E c \in DeletableCategories : DeleteCategory(c, FALSE)
    \/ \E typed \in TypedUsers : HandleAddUser(typed, FALSE)
    \/ \E u \in DeletableUsers : DeleteUser(u, FALSE)

SpecLists == Init /\ [][NextLists]_vars

\* Sessions that follow one another: every persisted value is changed, a
\* storage write may throw, and the page may be loaded again at any time.
NextStore ==
    \/ \E ty \in {<<"income">>, <<"variable-expense">>}, throws \in BOOLEAN :
          /\ nextId < MaxEntered
          /\ HandleSubmit(PlainDescription, <<"5">>, ty, FirstOption(categories),
                          DateInputValue(2024, 1, 5), FirstOption(users), throws)
    \/ \E id \in SomeIds, throws \in BOOLEAN : DeleteTransaction(id, throws)
    \/ \E typed \in {NumToStr(budget), <<"0">>, <<"-", "2">>},
          throws \in BOOLEAN : HandleUpdate(typed, throws)
    \/ OpenCategories
    \/ OpenUsers
    \/ CloseCategories
    \/ CloseUsers
    \/ \E throws \in BOOLEAN : HandleAddCategory(<<" ", "Ropa", ",", "bebe", " ">>, throws)
    \/ \E throws \in BOOLEAN : HandleAddUser(<<"Ana", " ">>, throws)
    \/ Reload

SpecStore == Init /\ [][NextStore]_vars

\* One session in which a category with a comma in its name is added and
\* transactions with and without commas and quotes are entered and exported.
NextCsv ==
    \/ \E d \in {PlainDescription, QuotedDescription, QuotesOnlyDescription},
          a \in {<<"5">>},
          ty \in {<<"income">>, <<"variable-expense">>},
          c \in SelectOptions(categories) :
          /\ nextId < MaxEntered
          /\ HandleSubmit(d, a, ty, c, DateInputValue(2024, 1, 5), FirstOption(users),
                          FALSE)
    \/ \E id \in SomeIds : DeleteTransaction(id, FALSE)
    \/ ExportToCsv
    \/ OpenCategories
    \/ CloseCategories
    \/ HandleAddCategory(<<" ", "Ropa", ",", "bebe", " ">>, FALSE)

SpecCsv == Init /\ [][NextCsv]_vars

\* ----------------------------------------------------------------- claims

\* The calendar day an ISO date string names, as <<year, month, day>>.
CivilOf(s) ==
    <<DigitsValue(SubSeq(s, 1, 4), 0), DigitsValue(SubSeq(s, 6, 7), 0),
      DigitsValue(SubSeq(s, 9, 10), 0)>>

\* Day a is the day b or a later one.
NotBefore(a, b) ==
    LET x == CivilOf(a)
        y == CivilOf(b)
    IN  \/ x[1] > y[1]
        \/ x[1] = y[1] /\ x[2] > y[2]
        \/ x[1] = y[1] /\ x[2] = y[2] /\ x[3] >= y[3]

\* C1: starting from the empty collection, after any sequence of
\* addTransaction and deleteTransaction calls the collection is sorted by
\* date descending (each element's date is not before its successor's) and
\* its length is the number of addTransaction calls (one UUID is drawn per
\* call) minus the number of deleteTransaction calls whose id was present.
C1_SortedAndCounted ==
    /\ \A i \in 1..(Len(transactions) - 1) :
          NotBefore(transactions[i].date, transactions[i + 1].date)
    /\ Len(transactions) = nextId - deleted

\* Three were added, the last on a day between the other two, one was deleted.
C1_Witness ==
    /\ nextId = 3
    /\ deleted = 1
    /\ Len(transactions) = 2
    /\ transactions[2].id = UUID(2)
    /\ transactions[1].date # transactions[2].date

\* C2: every transaction held has a non-negative amount; a submission whose
\* amount is not a valid non-negative number adds no transaction.
C2_AmountsNonNegative ==
    \A i \in 1..Len(transactions) : transactions[i].amount >= 0

RECURSIVE SumAmounts(_)
SumAmounts(list) ==
    IF list = <<>> THEN 0 ELSE Head(list).amount + SumAmounts(Tail(list))

OfKind(list, kind) == SelectSeq(list, LAMBDA t : t.type = kind)

NoDuplicates(list) ==
    \A i, j \in 1..Len(list) : list[i] = list[j] => i = j

\* What an add of value v to list `before` must leave in `after`.
AddContract(before, v, after) ==
    IF v = <<>> \/ (\E i \in 1..Len(before) : before[i] = v)
    THEN after = before
    ELSE /\ Len(after) = Len(before) + 1
         /\ after[Len(after)] = v
         /\ \A i \in 1..Len(before) : after[i] = before[i]

\* C4: from the default seeds, after any sequence of add and delete calls
\* neither list holds a value twice; an add of the empty string or of a value
\* already present leaves the list unchanged, any other add appends the value
\* at the end and keeps the entries before it in their order.
C4_UniqueAndAppended ==
    /\ [](NoDuplicates(categories) /\ NoDuplicates(users))
    /\ [][/\ event'.op = "addCategory" =>
               AddContract(categories, event'.arg, categories')
          /\ event'.op = "addUser" => AddContract(users, event'.arg, users')]_vars

\* Comida was deleted and added again: it is now the last category, behind the
\* new one; a user was added too.
C4_Witness ==
    /\ event.op = "addCategory"
    /\ event.arg = <<"Comida">>
    /\ Len(categories) = 7
    /\ categories[7] = <<"Comida">>
    /\ categories[6] = <<"Ropa", ",", "bebe">>
    /\ Len(users) = 3

\* list without every entry equal to v, the others in their order.
RECURSIVE RemoveAll(_, _)
RemoveAll(list, v) ==
    IF list = <<>> THEN <<>>
    ELSE IF list[Len(list)] = v THEN RemoveAll(SubSeq(list, 1, Len(list) - 1), v)
    ELSE Append(RemoveAll(SubSeq(list, 1, Len(list) - 1), v), list[Len(list)])

\* C5: deleteCategory(v) (deleteUser(v)) removes every entry equal to v from
\* its list, keeps the other entries in their order and leaves the
\* transaction collection as it was, the transactions that refer to v too.
C5_DeleteKeepsTransactions ==
    [][/\ event'.op = "deleteCategory" =>
            /\ categories' = RemoveAll(categories, event'.arg)
            /\ ~Includes(categories', event'.arg)
            /\ transactions' = transactions
       /\ event'.op = "deleteUser" =>
            /\ users' = RemoveAll(users, event'.arg)
            /\ ~Includes(users', event'.arg)
            /\ transactions' = transactions]_vars

\* A category was deleted that a held transaction refers to, and another
\* held transaction refers to a user that is no longer listed.
C5_Witness ==
    /\ event.op = "deleteCategory"
    /\ ~Includes(categories, event.arg)
    /\ \E i \in 1..Len(transactions) : transactions[i].category = Some(event.arg)
    /\ \E i \in 1..Len(transactions) : ~Includes(users, transactions[i].user)

\* The in-memory value of the binding of `key`.
Held(key) ==
    CASE key = "transactions" -> transactions
      [] key = "categories"   -> categories
      [] key = "users"        -> users
      [] OTHER                -> budget

\* C6: while no storage write has failed, the value stored under each of the
\* four keys loads to the in-memory value, so a new session finds the values
\* last set; and a new session finds the default under a key never written.
C6_StoredEqualsHeld ==
    /\ [](consoleErrors = 0 =>
            \A k \in Keys : LoadValue(k, storage[k]) = Held(k))
    /\ [][event'.op = "load" =>
            /\ consoleErrors = 0 =>
                 /\ transactions' = transactions
                 /\ categories' = categories
                 /\ users' = users
                 /\ budget' = budget
            /\ storage["transactions"] = None => transactions' = <<>>
            /\ storage["categories"] = None => categories' = DEFAULT_CATEGORIES
            /\ storage["users"] = None => users' = DEFAULT_USERS
            /\ storage["budget"] = None => budget' = 2000]_vars

\* A new session, no write having failed, found all four values changed: two
\* transactions (one without category), a seventh category, a third user and
\* a budget of 0.
C6_Witness ==
    /\ event.op = "load"
    /\ consoleErrors = 0
    /\ Len(transactions) = 2
    /\ \E i \in 1..2 : transactions[i].category = None
    /\ \E i \in 1..2 : transactions[i].category # None
    /\ Len(categories) = 7
    /\ Len(users) = 3
    /\ budget = 0

\* C7: when the storage write of a mutation fails, the handler still
\* completes (the error is only logged), the in-memory value is the new
\* value, the item stored under the key is the one stored before, and the
\* other three values and items are untouched.
C7_FailedWriteKeepsNewValue ==
    [][event'.throws =>
         /\ consoleErrors' = consoleErrors + 1
         /\ storage' = storage
         /\ \A k \in Keys \ {event'.key} : Held(k)' = Held(k)
         /\ event'.op = "submit" =>
              /\ Len(transactions') = Len(transactions) + 1
              /\ \E i \in 1..Len(transactions') : transactions'[i].id = UUID(nextId)
         /\ event'.op = "deleteTransaction" =>
              /\ \A i \in 1..Len(transactions') : transactions'[i].id # event'.arg
              /\ \A i \in 1..Len(transactions) :
                    transactions[i].id # event'.arg =>
                       Includes(transactions', transactions[i])
         /\ event'.op = "updateBudget" => budget' = parseFloat(event'.arg).value
         /\ event'.op = "addCategory" => categories' = Append(categories, event'.arg)
         /\ event'.op = "addUser" => users' = Append(users, event'.arg)]_vars

\* The write of a first transaction failed: it is held, nothing is stored.
C7_Witness ==
    /\ event.throws
    /\ event.op = "submit"
    /\ Len(transactions) = 1
    /\ storage["transactions"] = None

\* cell with each double quote written twice.
RECURSIVE Doubled(_)
Doubled(cell) ==
    IF cell = <<>> THEN <<>>
    ELSE Doubled(SubSeq(cell, 1, Len(cell) - 1))
         \o (IF cell[Len(cell)] = "\"" THEN <<"\"", "\"">> ELSE <<cell[Len(cell)]>>)

\* The quoting rule, for any field: quoted if and only if it has a comma.
Field(raw) ==
    IF \E i \in 1..Len(raw) : raw[i] = ","
    THEN <<"\"">> \o Doubled(raw) \o <<"\"">>
    ELSE raw

\* The seven raw fields of a transaction, an absent category as the empty one.
RawFields(t) ==
    <<t.id, t.description, NumToStr(t.amount), t.type,
      IF t.category = None THEN <<>> ELSE t.category[1], t.date, t.user>>

RowOf(t) ==
    LET f == RawFields(t)
    IN  Field(f[1]) \o <<",">> \o Field(f[2]) \o <<",">> \o Field(f[3]) \o <<",">>
        \o Field(f[4]) \o <<",">> \o Field(f[5]) \o <<",">> \o Field(f[6]) \o <<",">>
        \o Field(f[7])

RECURSIVE RowsOf(_)
RowsOf(list) ==
    IF list = <<>> THEN <<>> ELSE <<"\n">> \o RowOf(Head(list)) \o RowsOf(Tail(list))

HeaderRow ==
    <<"ID", ",", "Descripción", ",", "Monto", ",", "Tipo", ",", "Categoría", ",",
      "Fecha", ",", "Usuario">>

\* C8: the export of a non-empty collection is the header row followed by one
\* row per transaction in collection order, each with the seven fields in
\* their order, every field quoted (its quotes doubled) if and only if it has
\* a comma and unaltered otherwise, an absent category as an empty field.
C8_CsvRows ==
    output.download # None =>
        /\ transactions # <<>>
        /\ output.download[1] = HeaderRow \o RowsOf(transactions)

\* The file holds a row with a quoted description and no category, and a row
\* with a quoted category.
C8_Witness ==
    /\ output.download # None
    /\ Len(transactions) = 2
    /\ \E i \in 1..2 : /\ transactions[i].description = QuotedDescription
                       /\ transactions[i].category = None
    /\ \E i \in 1..2 : transactions[i].category = Some(<<"Ropa", ",", "bebe">>)

\* C9: export with no transaction held shows the notice, offers no file and
\* changes none of the persisted values nor the view; export with a
\* transaction held never shows the notice.
C9_EmptyExportNotice ==
    [][event'.op = "export" =>
         /\ transactions = <<>> => output'.alert /\ output'.download = None
         /\ transactions # <<>> => ~output'.alert
         /\ UNCHANGED <<transactions, categories, users, budget, storage,
                        isManagingCategories, isManagingUsers>>]_vars

\* The notice is shown for a collection emptied by deletion.
C9_Witness ==
    /\ event.op = "export"
    /\ output.alert
    /\ output.download = None
    /\ transactions = <<>>
    /\ deleted > 0

\* The view App renders.
View ==
    IF isManagingCategories THEN "categories"
    ELSE IF isManagingUsers THEN "users"
    ELSE "dashboard"

\* C10: the two view flags are never both true, and the view only changes
\* from the Dashboard to a manager or from a manager back to the Dashboard.
C10_ThreeViews ==
    /\ [](~(isManagingCategories /\ isManagingUsers))
    /\ [][View' # View => View = "dashboard" \/ View' = "dashboard"]_vars

\* The user manager is open, after the category manager was used and closed.
C10_Witness ==
    /\ isManagingUsers
    /\ ~isManagingCategories
    /\ event.op = "openUsers"
    /\ Len(categories) = 7

====
